---- MODULE Spec2Model ----
(***************************************************************************)
(* Model of Scheduler.run (src/core/py/scheduler.py): the season scheduler *)
(* that reads the team, venue and league tables, generates each league's   *)
(* match instances, places every instance by a first-fit search over       *)
(* (week, day, start, venue), retries the unscheduled ones and exports the *)
(* committed matches.                                                      *)
(*                                                                         *)
(* Times are counted in quarter hours (1 hour = 4 units), so that window   *)
(* bounds that are not multiples of half an hour can be represented:       *)
(* the float x of the program is the integer 4*x of the model.             *)
(***************************************************************************)
EXTENDS Integers, Sequences, FiniteSets, TLC

VARIABLES
    readable,            \* whether pd.read_csv succeeds on the three files
    team_df,             \* rows of team.csv
    venue_df,            \* rows of venue.csv
    league_df,           \* rows of league.csv
    teamDayCols,         \* days d for which team.csv has the d<d>Start/End columns
    venueDayCols,        \* days d for which venue.csv has the d<d>Start/End columns
    seasonCol,           \* season column of league.csv: "seasonYear", "season" or "none"
    pc,                  \* position in Scheduler.run
    venue_trees,         \* venue key -> booked intervals
    team_trees,          \* team id -> booked intervals
    all_scheduled_games, \* committed matches, in commit order
    li,                  \* index of the outer league loop (line 48)
    bi,                  \* index of the inner league loop (line 217)
    league_name,         \* local league_name (re-bound by both loops)
    season_start,        \* local season_start
    season_end,          \* local season_end
    season_year,         \* local season_year
    team_ids,            \* local team_ids
    game_pairs,          \* local game_pairs
    gi,                  \* index into game_pairs of the initial pass
    pair_game_count,     \* local pair_game_count
    unscheduled_pairs,   \* local unscheduled_pairs
    retry,               \* local unscheduled_pairs_league
    ri,                  \* index into retry of the backfill loop
    attempts,            \* history: every search made, in order
    schedule_records,    \* rows handed to the exporter
    ret                  \* return value of Scheduler.run (-1 while running)

inputs == <<readable, team_df, venue_df, league_df, teamDayCols, venueDayCols, seasonCol>>

locals == <<league_name, season_start, season_end, season_year, team_ids,
            game_pairs, gi, pair_game_count, unscheduled_pairs, retry, ri>>

vars == <<readable, team_df, venue_df, league_df, teamDayCols, venueDayCols, seasonCol,
          pc, venue_trees, team_trees, all_scheduled_games, li, bi,
          league_name, season_start, season_end, season_year, team_ids,
          game_pairs, gi, pair_game_count, unscheduled_pairs, retry, ri,
          attempts, schedule_records, ret>>

----------------------------------------------------------------------------
(* Bounds of the model *)

MaxTeams == 4

MaxLeagues == 2

MaxVenues == 2

MaxWeek == 2

MaxGames == 2

(* games per team in the tables of a single league *)
MaxGamesOne == 3

(* Program constants, in quarter hours *)

GameLen == 8

HalfHour == 2

DefaultStart == 0

DefaultEnd == 96

LastDay == 7

Days == 1..LastDay

None == 0

(* a name the league loop has not bound yet *)
Unbound == <<>>

----------------------------------------------------------------------------
(* Generic helpers *)

Min(a, b) == IF a <= b THEN a ELSE b

Max(a, b) == IF a >= b THEN a ELSE b

Range(s) == {s[i] : i \in DOMAIN s}

RECURSIVE SelectIdx(_, _, _)
(* the indices i >= from of s, ascending, whose row is in the set keep *)
SelectIdx(s, keep, from) ==
    IF from > Len(s) THEN <<>>
    ELSE IF s[from] \in keep THEN <<from>> \o SelectIdx(s, keep, from + 1)
    ELSE SelectIdx(s, keep, from + 1)

----------------------------------------------------------------------------
(* Conflict index (core.py.interval_tree): the booked intervals of a resource *)

Interval(start, end, day, week) == [start |-> start, end |-> end, day |-> day, week |-> week]

EmptyTree == {}

(* IntervalTree.overlap: some stored interval of the same (week, day) overlaps iv *)
Overlap(tree, iv) ==
    \E b \in tree : /\ b.week = iv.week
                    /\ b.day = iv.day
                    /\ b.start < iv.end
                    /\ iv.start < b.end

(* IntervalTree.insert: no re-validation *)
Insert(tree, iv) == tree \cup {iv}

----------------------------------------------------------------------------
(* Table access *)

(* f"{v['venueId']}_field_{v['field']}" *)
VenueKey(v) == <<v.venueId, v.field>>

(* f"{venue['name']} Field #{venue['field']}" *)
VenueName(v) == <<v.name, "Field #", v.field>>

(* row.get(f"d{day}Start", 0), row.get(f"d{day}End", 24) *)
Window(row, day, cols) ==
    IF day \in cols THEN row.win[day] ELSE <<DefaultStart, DefaultEnd>>

(* team_df[team_df['leagueId'] == league_id]: the row indices, in table order *)
LeagueTeams(league_id) ==
    SelectIdx(team_df, {r \in Range(team_df) : r.leagueId = league_id}, 1)

(* league_teams['teamId'].tolist() *)
TeamIds(league_id) ==
    LET rows == LeagueTeams(league_id) IN [i \in 1..Len(rows) |-> team_df[rows[i]].teamId]

(* league_teams[league_teams['teamId'] == tid].iloc[0] *)
LeagueTeamRow(league_id, tid) ==
    team_df[SelectIdx(team_df, {r \in Range(team_df) : r.leagueId = league_id /\ r.teamId = tid}, 1)[1]]

(* team_df[team_df['teamId'] == tid].iloc[0] *)
AnyTeamRow(tid) ==
    team_df[SelectIdx(team_df, {r \in Range(team_df) : r.teamId = tid}, 1)[1]]

(* league_teams.set_index('teamId')['name'].to_dict(): the last row of an id wins *)
TeamNames(league_id) ==
    LET rows == LeagueTeams(league_id) IN
    [tid \in Range(TeamIds(league_id)) |->
        LET last == CHOOSE i \in 1..Len(rows) :
                        /\ team_df[rows[i]].teamId = tid
                        /\ \A j \in 1..Len(rows) : team_df[rows[j]].teamId = tid => j <= i
        IN team_df[rows[last]].name]

(* faulty variant: the product is not halved, every game is counted once per team *)
RequiredTotalPerTeam(league) == league.numberOfGames * Len(LeagueTeams(league.leagueId))

(* number_of_games_per_team * number_of_teams // 2 *)
RequiredTotal(league) == (league.numberOfGames * Len(LeagueTeams(league.leagueId))) \div 2

----------------------------------------------------------------------------
(* Pairing generator (lines 82-105) *)

RECURSIVE PairsFrom(_, _, _)
(* itertools.combinations(ids, 2) from position (i, j) on *)
PairsFrom(ids, i, j) ==
    IF i >= Len(ids) THEN <<>>
    ELSE IF j > Len(ids) THEN PairsFrom(ids, i + 1, i + 2)
    ELSE <<<<ids[i], ids[j]>>>> \o PairsFrom(ids, i, j + 1)

Combinations(ids) == PairsFrom(ids, 1, 2)

RECURSIVE Repeat(_, _)
(* for pair in possible_pairs: for _ in range(n): append(pair) *)
Repeat(pairs, n) ==
    IF pairs = <<>> THEN <<>>
    ELSE [k \in 1..n |-> Head(pairs)] \o Repeat(Tail(pairs), n)

GamesPerPair(required, total_possible_pairs) == required \div total_possible_pairs

ExtraGames(required, total_possible_pairs) == required % total_possible_pairs

(* faulty variant: every extra game goes to the first pair *)
GamePairsFirst(possible_pairs, required) ==
    Repeat(possible_pairs, GamesPerPair(required, Len(possible_pairs)))
        \o [k \in 1..ExtraGames(required, Len(possible_pairs)) |-> possible_pairs[1]]

(* faulty variant: the extra games are attempted before the others *)
GamePairsExtraFirst(possible_pairs, required) ==
    SubSeq(possible_pairs, 1, ExtraGames(required, Len(possible_pairs)))
        \o Repeat(possible_pairs, GamesPerPair(required, Len(possible_pairs)))

GamePairs(possible_pairs, required) ==
    Repeat(possible_pairs, GamesPerPair(required, Len(possible_pairs)))
        \o SubSeq(possible_pairs, 1, ExtraGames(required, Len(possible_pairs)))

----------------------------------------------------------------------------
(* Slot search (lines 120-209 and 245-333) *)

NotFound == [found |-> FALSE, week |-> 0, day |-> 0, start |-> 0, vrow |-> 0]

(* faulty variant: only the opening of the venue is compared *)
VenueClosedStart(w, s) == s < w[1]

(* if start_time < v_start or end_time > v_end: continue *)
VenueClosed(w, s) == s < w[1] \/ s + GameLen > w[2]

(* faulty variant: the last open and free venue row is taken, not the first *)
FirstVenueLast(v, week, day, s) ==
    LET fit == {x \in v..Len(venue_df) :
                   /\ ~VenueClosed(Window(venue_df[x], day, venueDayCols), s)
                   /\ ~Overlap(venue_trees[VenueKey(venue_df[x])],
                               Interval(s, s + GameLen, day, week))}
    IN IF fit = {} THEN None ELSE CHOOSE x \in fit : \A y \in fit : y <= x

RECURSIVE FirstVenue(_, _, _, _)
(* for _, venue in venue_df.iterrows(): the first open and free venue row, or None *)
FirstVenue(v, week, day, s) ==
    IF v > Len(venue_df) THEN None
    ELSE IF VenueClosed(Window(venue_df[v], day, venueDayCols), s)
         THEN FirstVenue(v + 1, week, day, s)
    ELSE IF Overlap(venue_trees[VenueKey(venue_df[v])], Interval(s, s + GameLen, day, week))
         THEN FirstVenue(v + 1, week, day, s)
    ELSE v

(* faulty variant: only the first team's index is consulted *)
TeamsBusyFirst(t1, t2, iv) == Overlap(team_trees[t1], iv)

(* team_trees[team1_id].overlap(..) or team_trees[team2_id].overlap(..) *)
TeamsBusy(t1, t2, iv) == Overlap(team_trees[t1], iv) \/ Overlap(team_trees[t2], iv)

RECURSIVE FirstStart(_, _, _, _, _, _)
(* for start_time in potential_starts, from half-hour index h to hmax *)
FirstStart(h, hmax, week, day, t1, t2) ==
    IF h > hmax THEN NotFound
    ELSE LET s == h * HalfHour
             v == FirstVenue(1, week, day, s)
         IN IF TeamsBusy(t1, t2, Interval(s, s + GameLen, day, week))
                THEN FirstStart(h + 1, hmax, week, day, t1, t2)
            ELSE IF v # None
                THEN [found |-> TRUE, week |-> week, day |-> day, start |-> s, vrow |-> v]
            ELSE FirstStart(h + 1, hmax, week, day, t1, t2)

(* range(int(day_start * 2), int((day_end - 2) * 2) + 1): first and last index *)
(* faulty variant: the first candidate is the half hour after the window's opening *)
FirstIndexAfter(day_start) == (day_start \div HalfHour) + 1

FirstIndex(day_start) == day_start \div HalfHour

LastIndex(day_end) == (day_end - GameLen) \div HalfHour

(* if day_end - day_start < 2: continue *)
TooShort(day_start, day_end) == day_end - day_start < GameLen

RECURSIVE FirstDay(_, _, _, _)
(* for day in range(1, 8); r1 and r2 are the team rows consulted *)
FirstDay(day, week, r1, r2) ==
    IF day > LastDay THEN NotFound
    ELSE LET w1 == Window(r1, day, teamDayCols)
             w2 == Window(r2, day, teamDayCols)
             day_start == Max(w1[1], w2[1])
             day_end == Min(w1[2], w2[2])
             r == FirstStart(FirstIndex(day_start), LastIndex(day_end), week, day,
                             r1.teamId, r2.teamId)
         IN IF TooShort(day_start, day_end) THEN FirstDay(day + 1, week, r1, r2)
            ELSE IF r.found THEN r
            ELSE FirstDay(day + 1, week, r1, r2)

RECURSIVE FirstWeek(_, _, _, _)
(* for week in range(season_start, season_end + 1) *)
FirstWeek(week, last, r1, r2) ==
    IF week > last THEN NotFound
    ELSE LET r == FirstDay(1, week, r1, r2)
         IN IF r.found THEN r ELSE FirstWeek(week + 1, last, r1, r2)

Search(r1, r2) == FirstWeek(season_start, season_end, r1, r2)

(* Game(...) of lines 180-192 and 304-316; vrow, pass and loop record where the
   commit was made *)
Game(pair, names, r, pass) ==
    [team1_id |-> pair[1], team2_id |-> pair[2],
     team1_name |-> names[pair[1]], team2_name |-> names[pair[2]],
     week |-> r.week, day |-> r.day, season |-> season_year,
     start |-> r.start, end |-> r.start + GameLen,
     league |-> league_name, venue_name |-> VenueName(venue_df[r.vrow]),
     vkey |-> VenueKey(venue_df[r.vrow]), vrow |-> r.vrow,
     pass |-> pass, loop |-> li]

----------------------------------------------------------------------------
(* Input tables.  League identifiers, league names and venue-field keys are
   distinct, and so are the team identifiers inside one league; the program
   does not check that a team identifier belongs to one league only, so a team
   identifier may appear in the rosters of two leagues.  Window bounds are
   numbers (no missing cell in a column that is present). *)

Closed == [d \in Days |-> <<0, 0>>]

(* day 1 from 8:00 to 10:00 *)
Narrow == [d \in Days |-> IF d = 1 THEN <<32, 40>> ELSE <<0, 0>>]

(* day 1 from 8:00 to 12:00, day 2 from 8:15 to 12:00 *)
Wide == [d \in Days |-> IF d = 1 THEN <<32, 48>> ELSE IF d = 2 THEN <<33, 48>> ELSE <<0, 0>>]

(* day 1 and day 2 from 8:00 to 12:00 *)
VWide == [d \in Days |-> IF d \in {1, 2} THEN <<32, 48>> ELSE <<0, 0>>]

TeamTemplates == {Narrow, Wide}

VenueTemplates == {Narrow, VWide}

Seasons == {se \in (1..MaxWeek) \X (1..MaxWeek) : se[1] <= se[2]}

AllDays == Days

FirstDayOnly == {1}

(* team.csv: row i has id ids[i], league lg[i] and windows tw[i] on the days cols *)
TeamTable(n, ids, lg, tw, cols) ==
    [i \in 1..n |-> [teamId |-> ids[i], name |-> <<"Team", i>>, leagueId |-> lg[i],
                     win |-> [d \in cols |-> tw[i][d]]]]

(* venue.csv: two fields per venue, row i with windows vw[i] on the days cols *)
VenueTable(n, vids, vw, cols) ==
    [i \in 1..n |-> [venueId |-> vids[i], name |-> <<"Venue", vids[i]>>,
                     field |-> ((i + 1) % 2) + 1,
                     win |-> [d \in cols |-> vw[i][d]]]]

(* league.csv: league i runs over the weeks ss[i] and asks for ng[i] games per team *)
LeagueTable(n, ss, ng) ==
    [i \in 1..n |-> [leagueId |-> i, leagueName |-> <<"League", i>>,
                     seasonStart |-> ss[i][1], seasonEnd |-> ss[i][2],
                     numberOfGames |-> ng[i], label |-> <<"Season", i>>]]

Ascending(n) == [i \in 1..n |-> i]

VenueIds(n) == [i \in 1..n |-> (i + 1) \div 2]

NonDecreasing(f, n) == \A i \in 1..(n - 1) : f[i] <= f[i + 1]

(* the rows that may repeat the identifier of row 1: the first row of another league *)
DupRows(lg, n) ==
    {0} \cup {i \in 2..n : lg[i] # lg[1] /\ lg[i - 1] # lg[i]}

Start ==
    /\ pc = "read"
    /\ venue_trees = <<>>
    /\ team_trees = <<>>
    /\ all_scheduled_games = <<>>
    /\ li = 0
    /\ bi = 0
    /\ league_name = Unbound
    /\ season_start = 0
    /\ season_end = 0
    /\ season_year = Unbound
    /\ team_ids = <<>>
    /\ game_pairs = <<>>
    /\ gi = 0
    /\ pair_game_count = <<>>
    /\ unscheduled_pairs = <<>>
    /\ retry = <<>>
    /\ ri = 0
    /\ attempts = <<>>
    /\ schedule_records = <<>>
    /\ ret = -1

(* the files cannot be read *)
InitUnreadable ==
    /\ readable = FALSE
    /\ team_df = <<>>
    /\ venue_df = <<>>
    /\ league_df = <<>>
    /\ teamDayCols = {}
    /\ venueDayCols = {}
    /\ seasonCol = "none"

(* complete tables: contention for team and venue time, leagues of different
   seasons, and a team identifier that may appear in the rosters of two leagues *)
InitContention ==
    /\ readable = TRUE
    /\ teamDayCols = AllDays
    /\ venueDayCols = AllDays
    /\ seasonCol = "seasonYear"
    /\ \E nl \in 1..MaxLeagues, n \in 2..MaxTeams, nv \in 1..MaxVenues, g \in 1..MaxGames :
         \E lg \in [1..n -> 1..nl], ss \in [1..nl -> Seasons], vw \in [1..nv -> VenueTemplates] :
           /\ NonDecreasing(lg, n)
           /\ \A l \in 1..nl : \E i \in 1..n : lg[i] = l
           /\ \E dup \in DupRows(lg, n) :
                \E tw \in [1..n -> TeamTemplates] :
                  /\ dup # 0 => tw[dup] = Narrow
                  /\ team_df = TeamTable(n, [i \in 1..n |-> IF i = dup THEN 1 ELSE i], lg,
                                         [i \in 1..n |-> IF i = dup THEN Closed ELSE tw[i]],
                                         AllDays)
           /\ venue_df = VenueTable(nv, VenueIds(nv), vw, AllDays)
           /\ league_df = LeagueTable(nl, ss, [l \in 1..nl |-> g])

(* tables of other shapes: day columns that are absent, the season under either
   column name or under none, no venue row at all *)
InitShapes ==
    /\ readable = TRUE
    /\ teamDayCols \in {AllDays, FirstDayOnly}
    /\ venueDayCols \in {AllDays, FirstDayOnly}
    /\ seasonCol \in {"seasonYear", "season", "none"}
    /\ \E nv \in 0..MaxVenues, g \in 1..MaxGames, se \in Seasons :
         \E tw \in [1..2 -> TeamTemplates] :
           /\ team_df = TeamTable(2, Ascending(2), [i \in 1..2 |-> 1], tw, teamDayCols)
           /\ venue_df = VenueTable(nv, VenueIds(nv), [i \in 1..nv |-> Narrow], venueDayCols)
           /\ league_df = LeagueTable(1, <<se>>, <<g>>)

Perms(n) == {f \in [1..n -> 1..n] : \A i, j \in 1..n : f[i] = f[j] => i = j}

(* rows in any order: the team and the venue identifiers are permuted *)
InitOrder ==
    /\ readable = TRUE
    /\ teamDayCols = AllDays
    /\ venueDayCols = AllDays
    /\ seasonCol = "seasonYear"
    /\ \E n \in 2..MaxTeams, nv \in 1..MaxVenues, g \in 1..MaxGamesOne, se \in Seasons :
         \E ids \in Perms(n), vids \in Perms(nv), t \in TeamTemplates :
           /\ team_df = TeamTable(n, ids, [i \in 1..n |-> 1], [i \in 1..n |-> t], AllDays)
           /\ venue_df = VenueTable(nv, vids, [i \in 1..nv |-> Narrow], AllDays)
           /\ league_df = LeagueTable(1, <<se>>, <<g>>)

(* the tables of src/test.py: day 1 from 8:00 to 16:00 and from 9:00 to 17:00 for
   the teams, from 8:00 to 18:00 for the venue-field, no column for another day *)
TestTeam1 == [d \in Days |-> IF d = 1 THEN <<32, 64>> ELSE <<0, 0>>]

TestTeam2 == [d \in Days |-> IF d = 1 THEN <<36, 68>> ELSE <<0, 0>>]

TestVenue == [d \in Days |-> IF d = 1 THEN <<32, 72>> ELSE <<0, 0>>]

TestTeams(n) == [i \in 1..n |-> IF i % 2 = 1 THEN TestTeam1 ELSE TestTeam2]

(* the test case of src/test.py (one league, weeks 1 to 2, 2 games per team), also
   with a second league of two such teams and with other numbers of games *)
InitTestCase ==
    /\ readable = TRUE
    /\ teamDayCols = FirstDayOnly
    /\ venueDayCols = FirstDayOnly
    /\ seasonCol = "seasonYear"
    /\ \E nl \in 1..MaxLeagues :
         \E ng \in [1..nl -> 1..MaxGamesOne] :
           /\ team_df = TeamTable(2 * nl, Ascending(2 * nl), [i \in 1..(2 * nl) |-> (i + 1) \div 2],
                                  TestTeams(2 * nl), FirstDayOnly)
           /\ venue_df = VenueTable(1, <<1>>, <<TestVenue>>, FirstDayOnly)
           /\ league_df = LeagueTable(nl, [l \in 1..nl |-> <<1, 2>>], ng)

(* test_case9: a league of 6 teams, a season of 5 weeks, 2 games per team and week *)
Case9Teams == 6

Case9Weeks == 5

Case9GamesPerWeek == 2

InitCase9 ==
    /\ readable = TRUE
    /\ teamDayCols = FirstDayOnly
    /\ venueDayCols = FirstDayOnly
    /\ seasonCol = "seasonYear"
    /\ team_df = TeamTable(Case9Teams, Ascending(Case9Teams), [i \in 1..Case9Teams |-> 1],
                           TestTeams(Case9Teams), FirstDayOnly)
    /\ venue_df = VenueTable(1, <<1>>, <<TestVenue>>, FirstDayOnly)
    /\ league_df = LeagueTable(1, <<<<1, Case9Weeks>>>>, <<Case9GamesPerWeek * Case9Weeks>>)

Init ==
    Start /\ (InitUnreadable \/ InitContention \/ InitShapes \/ InitOrder
                \/ InitTestCase \/ InitCase9)

----------------------------------------------------------------------------
(* Scheduler.run *)

(* lines 25-45: the tables are read and the conflict indices created *)
ReadInputs ==
    /\ pc = "read"
    /\ readable
    /\ venue_trees' = [k \in {VenueKey(venue_df[i]) : i \in DOMAIN venue_df} |-> EmptyTree]
    /\ team_trees' = [t \in {team_df[i].teamId : i \in DOMAIN team_df} |-> EmptyTree]
    /\ all_scheduled_games' = <<>>
    /\ li' = 1
    /\ pc' = "league"
    /\ UNCHANGED <<inputs, locals, bi, attempts, schedule_records, ret>>

(* lines 30-33: reading fails, return 1 *)
ReadFail ==
    /\ pc = "read"
    /\ ~readable
    /\ ret' = 1
    /\ pc' = "done"
    /\ UNCHANGED <<inputs, locals, venue_trees, team_trees, all_scheduled_games, li, bi,
                   attempts, schedule_records>>

(* faulty variant: the game is inserted at the head of the list *)
CommitFront(pair, g) ==
    LET iv == Interval(g.start, g.end, g.day, g.week) IN
    /\ team_trees' = [team_trees EXCEPT ![g.team1_id] = Insert(@, iv),
                                        ![g.team2_id] = Insert(@, iv)]
    /\ venue_trees' = [venue_trees EXCEPT ![g.vkey] = Insert(@, iv)]
    /\ all_scheduled_games' = <<g>> \o all_scheduled_games
    /\ pair_game_count' = [pair_game_count EXCEPT ![pair] = @ + 1]

(* faulty variant: the second team's index is not updated *)
CommitOneTeam(pair, g) ==
    LET iv == Interval(g.start, g.end, g.day, g.week) IN
    /\ team_trees' = [team_trees EXCEPT ![g.team1_id] = Insert(@, iv)]
    /\ venue_trees' = [venue_trees EXCEPT ![g.vkey] = Insert(@, iv)]
    /\ all_scheduled_games' = Append(all_scheduled_games, g)
    /\ pair_game_count' = [pair_game_count EXCEPT ![pair] = @ + 1]

(* lines 194-201 and 318-325: the three insertions, the append and the count *)
Commit(pair, g) ==
    LET iv == Interval(g.start, g.end, g.day, g.week) IN
    /\ team_trees' = [team_trees EXCEPT ![g.team1_id] = Insert(@, iv),
                                        ![g.team2_id] = Insert(@, iv)]
    /\ venue_trees' = [venue_trees EXCEPT ![g.vkey] = Insert(@, iv)]
    /\ all_scheduled_games' = Append(all_scheduled_games, g)
    /\ pair_game_count' = [pair_game_count EXCEPT ![pair] = @ + 1]

NoCommit == UNCHANGED <<team_trees, venue_trees, all_scheduled_games, pair_game_count>>

Attempt(pass, pair, pos, found) ==
    [pass |-> pass, loop |-> li, inner |-> IF pass = "initial" THEN 0 ELSE bi,
     pair |-> pair, pos |-> pos, found |-> found]

(* lines 56-63: league.csv has no season column, the league is skipped *)
SkipNoSeason ==
    /\ pc = "league"
    /\ li <= Len(league_df)
    /\ seasonCol = "none"
    /\ league_name' = league_df[li].leagueName
    /\ season_start' = league_df[li].seasonStart
    /\ season_end' = league_df[li].seasonEnd
    /\ li' = li + 1
    /\ UNCHANGED <<inputs, pc, venue_trees, team_trees, all_scheduled_games, bi,
                   season_year, team_ids, game_pairs, gi, pair_game_count,
                   unscheduled_pairs, retry, ri, attempts, schedule_records, ret>>

(* faulty variant: the skip does not move on to the next league *)
SkipFewTeamsStay ==
    /\ pc = "league"
    /\ li <= Len(league_df)
    /\ seasonCol # "none"
    /\ \/ Len(LeagueTeams(league_df[li].leagueId)) < 2
       \/ Len(Combinations(TeamIds(league_df[li].leagueId))) = 0
    /\ league_name' = league_df[li].leagueName
    /\ season_start' = league_df[li].seasonStart
    /\ season_end' = league_df[li].seasonEnd
    /\ season_year' = league_df[li].label
    /\ team_ids' = TeamIds(league_df[li].leagueId)
    /\ li' = li
    /\ UNCHANGED <<inputs, pc, venue_trees, team_trees, all_scheduled_games, bi,
                   game_pairs, gi, pair_game_count,
                   unscheduled_pairs, retry, ri, attempts, schedule_records, ret>>

(* lines 77-88: fewer than 2 teams (no possible pair), the league is skipped *)
SkipFewTeams ==
    /\ pc = "league"
    /\ li <= Len(league_df)
    /\ seasonCol # "none"
    /\ \/ Len(LeagueTeams(league_df[li].leagueId)) < 2
       \/ Len(Combinations(TeamIds(league_df[li].leagueId))) = 0
    /\ league_name' = league_df[li].leagueName
    /\ season_start' = league_df[li].seasonStart
    /\ season_end' = league_df[li].seasonEnd
    /\ season_year' = league_df[li].label
    /\ team_ids' = TeamIds(league_df[li].leagueId)
    /\ li' = li + 1
    /\ UNCHANGED <<inputs, pc, venue_trees, team_trees, all_scheduled_games, bi,
                   game_pairs, gi, pair_game_count,
                   unscheduled_pairs, retry, ri, attempts, schedule_records, ret>>

(* lines 48-110: the league's locals are bound and its instances generated *)
StartLeague ==
    /\ pc = "league"
    /\ li <= Len(league_df)
    /\ seasonCol # "none"
    /\ Len(LeagueTeams(league_df[li].leagueId)) >= 2
    /\ \E league \in {league_df[li]} :
       \E ids \in {TeamIds(league.leagueId)} :
       \E possible_pairs \in {Combinations(ids)} :
       \E pairs \in {GamePairs(possible_pairs, RequiredTotal(league))} :
          /\ Len(possible_pairs) # 0
          /\ league_name' = league.leagueName
          /\ season_start' = league.seasonStart
          /\ season_end' = league.seasonEnd
          /\ season_year' = league.label
          /\ team_ids' = ids
          /\ game_pairs' = pairs
          /\ pair_game_count' = [p \in Range(possible_pairs) |-> 0]
          /\ unscheduled_pairs' = <<>>
          /\ gi' = 1
          /\ bi' = 1
          /\ pc' = IF Len(pairs) = 0 THEN "verify" ELSE "initial"
    /\ UNCHANGED <<inputs, venue_trees, team_trees, all_scheduled_games, li,
                   retry, ri, attempts, schedule_records, ret>>

(* lines 113-214: one instance of the initial pass is searched *)
AttemptInitial ==
    /\ pc = "initial"
    /\ \E pair \in {game_pairs[gi]}, league_id \in {league_df[li].leagueId} :
       \E r1 \in {LeagueTeamRow(league_id, pair[1])}, r2 \in {LeagueTeamRow(league_id, pair[2])} :
       \E r \in {Search(r1, r2)} :
          /\ IF r.found
                THEN /\ \E g \in {Game(pair, TeamNames(league_id), r, "initial")} :
                          Commit(pair, g)
                     /\ UNCHANGED unscheduled_pairs
                ELSE /\ NoCommit
                     /\ unscheduled_pairs' = Append(unscheduled_pairs, pair)
          /\ attempts' = Append(attempts, Attempt("initial", pair, gi, r.found))
    /\ gi' = gi + 1
    /\ pc' = IF gi = Len(game_pairs) THEN "verify" ELSE "initial"
    /\ UNCHANGED <<inputs, li, bi, league_name, season_start, season_end, season_year,
                   team_ids, game_pairs, retry, ri, schedule_records, ret>>

(* games of all_scheduled_games whose league is name *)
ScheduledGamesLeague(name) ==
    {i \in DOMAIN all_scheduled_games : all_scheduled_games[i].league = name}

(* [pair for pair in unscheduled_pairs if pair[0] in team_ids and pair[1] in team_ids] *)
UnscheduledPairsLeague ==
    LET keep == SelectIdx(unscheduled_pairs,
                          {p \in Range(unscheduled_pairs) :
                               p[1] \in Range(team_ids) /\ p[2] \in Range(team_ids)}, 1)
    IN [i \in 1..Len(keep) |-> unscheduled_pairs[keep[i]]]

(* the inner loop moves to its next league, or the outer loop to its next one *)
NextVerify ==
    IF bi < Len(league_df)
        THEN /\ bi' = bi + 1
             /\ pc' = "verify"
             /\ li' = li
        ELSE /\ bi' = bi
             /\ pc' = "league"
             /\ li' = li + 1

(* lines 217-235 and 339-348: one league of the inner loop is counted *)
VerifyLeague ==
    /\ pc = "verify"
    /\ \E league \in {league_df[bi]}, league_unscheduled \in {UnscheduledPairsLeague} :
       \E short \in {Cardinality(ScheduledGamesLeague(league.leagueName)) < RequiredTotal(league)} :
          /\ league_name' = league.leagueName
          /\ IF short /\ Len(league_unscheduled) > 0
                THEN /\ retry' = league_unscheduled
                     /\ ri' = 1
                     /\ pc' = "backfill"
                     /\ UNCHANGED <<li, bi>>
                ELSE /\ retry' = IF short THEN league_unscheduled ELSE retry
                     /\ UNCHANGED ri
                     /\ NextVerify
    /\ UNCHANGED <<inputs, venue_trees, team_trees, all_scheduled_games,
                   season_start, season_end, season_year, team_ids, game_pairs, gi,
                   pair_game_count, unscheduled_pairs, attempts, schedule_records, ret>>

(* faulty variant: the weeks searched are the season of the league found short *)
AttemptBackfillOwnSeason ==
    /\ pc = "backfill"
    /\ \E pair \in {retry[ri]} :
       \E r1 \in {AnyTeamRow(pair[1])}, r2 \in {AnyTeamRow(pair[2])} :
       \E r \in {FirstWeek(league_df[bi].seasonStart, league_df[bi].seasonEnd, r1, r2)} :
          /\ IF r.found
                THEN \E g \in {Game(pair, TeamNames(league_df[li].leagueId), r, "backfill")} :
                        Commit(pair, g)
                ELSE NoCommit
          /\ attempts' = Append(attempts, Attempt("backfill", pair, ri, r.found))
    /\ ri' = ri + 1
    /\ IF ri = Len(retry) THEN NextVerify ELSE UNCHANGED <<pc, li, bi>>
    /\ UNCHANGED <<inputs, league_name, season_start, season_end, season_year,
                   team_ids, game_pairs, gi, unscheduled_pairs, retry, schedule_records, ret>>

(* lines 237-337: one unscheduled pair is searched again *)
AttemptBackfill ==
    /\ pc = "backfill"
    /\ \E pair \in {retry[ri]} :
       \E r1 \in {AnyTeamRow(pair[1])}, r2 \in {AnyTeamRow(pair[2])} :
       \E r \in {Search(r1, r2)} :
          /\ IF r.found
                THEN \E g \in {Game(pair, TeamNames(league_df[li].leagueId), r, "backfill")} :
                        Commit(pair, g)
                ELSE NoCommit
          /\ attempts' = Append(attempts, Attempt("backfill", pair, ri, r.found))
    /\ ri' = ri + 1
    /\ IF ri = Len(retry) THEN NextVerify ELSE UNCHANGED <<pc, li, bi>>
    /\ UNCHANGED <<inputs, league_name, season_start, season_end, season_year,
                   team_ids, game_pairs, gi, unscheduled_pairs, retry, schedule_records, ret>>

(* the row of schedule_records made from a committed game (lines 353-363) *)
Record(g) ==
    [team1Name |-> g.team1_name, team2Name |-> g.team2_name, week |-> g.week,
     day |-> g.day, start |-> g.start, end |-> g.end, season |-> g.season,
     league |-> g.league, location |-> g.venue_name]

(* faulty variant: a league left short makes the run fail *)
ExportFatal ==
    /\ pc = "league"
    /\ li > Len(league_df)
    /\ schedule_records' = [i \in DOMAIN all_scheduled_games |-> Record(all_scheduled_games[i])]
    /\ ret' = IF \E l \in DOMAIN league_df :
                     Cardinality(ScheduledGamesLeague(league_df[l].leagueName))
                         < RequiredTotal(league_df[l])
               THEN 1 ELSE 0
    /\ pc' = "done"
    /\ UNCHANGED <<inputs, locals, venue_trees, team_trees, all_scheduled_games, li, bi,
                   attempts>>

(* lines 350-373: the records are built and written, return 0 *)
Export ==
    /\ pc = "league"
    /\ li > Len(league_df)
    /\ schedule_records' = [i \in DOMAIN all_scheduled_games |-> Record(all_scheduled_games[i])]
    /\ ret' = 0
    /\ pc' = "done"
    /\ UNCHANGED <<inputs, locals, venue_trees, team_trees, all_scheduled_games, li, bi,
                   attempts>>

Next ==
    \/ ReadInputs
    \/ ReadFail
    \/ SkipNoSeason
    \/ SkipFewTeams
    \/ StartLeague
    \/ AttemptInitial
    \/ VerifyLeague
    \/ AttemptBackfill
    \/ Export

Spec == Init /\ [][Next]_vars

(* the statement the run is at: every step of Next moves it *)
position == <<pc, li, bi, gi, ri>>

(* the run is one sequential thread: the statement it is at is executed *)
FairSpec == Spec /\ WF_position(Next)

----------------------------------------------------------------------------
(* Properties *)

Games == DOMAIN all_scheduled_games

Teams(g) == {g.team1_id, g.team2_id}

SameDay(a, b) == a.week = b.week /\ a.day = b.day

Disjoint(a, b) == ~(a.start < b.end /\ b.start < a.end)

SharesTeam(a, b) == Teams(a) \cap Teams(b) # {}

SharesVenue(a, b) == a.vkey = b.vkey

(* C1: no-overlap invariant. In every state of the run, two committed matches
   that have a team in common, or that are played on the same venue-field
   (also when they belong to different leagues), and that share (week, day),
   have non-overlapping [start, end) ranges. *)
C1_NoOverlap ==
    \A i, j \in Games :
        LET a == all_scheduled_games[i]
            b == all_scheduled_games[j]
        IN (i < j /\ SameDay(a, b) /\ (SharesTeam(a, b) \/ SharesVenue(a, b)))
               => Disjoint(a, b)

(* two matches of different leagues were committed on the same venue-field and
   day, and two matches of one team on the same day, one of them in the backfill *)
C1_Witness ==
    /\ \E i, j \in Games :
         LET a == all_scheduled_games[i]
             b == all_scheduled_games[j]
         IN i < j /\ SameDay(a, b) /\ SharesVenue(a, b) /\ a.loop # b.loop
    /\ \E i, j \in Games :
         LET a == all_scheduled_games[i]
             b == all_scheduled_games[j]
         IN i < j /\ SameDay(a, b) /\ SharesTeam(a, b) /\ b.pass = "backfill"

Done == pc = "done" /\ ret = 0

UniqueTeamIds == \A i, j \in DOMAIN team_df : team_df[i].teamId = team_df[j].teamId => i = j

(* C2: capacity bound. At the end of the run, for every league of the input,
   the number of committed matches whose league field is that league is at
   most requiredTotal = floor(numberOfGames * teamCount / 2). *)
C2_CapacityBound ==
    Done => \A l \in DOMAIN league_df :
                Cardinality(ScheduledGamesLeague(league_df[l].leagueName))
                    <= RequiredTotal(league_df[l])

(* the league whose instances game_pairs holds *)
Generated == pc \in {"initial", "verify", "backfill"}

CurTeams == {team_df[i].teamId : i \in {k \in DOMAIN team_df : team_df[k].leagueId = league_df[li].leagueId}}

CurTeamCount == Cardinality({k \in DOMAIN team_df : team_df[k].leagueId = league_df[li].leagueId})

CurRequired == (league_df[li].numberOfGames * CurTeamCount) \div 2

UnorderedPairs(T) == {{a, b} : a, b \in T} \ {{a} : a \in T}

Occurrences(p) == Cardinality({k \in DOMAIN game_pairs : {game_pairs[k][1], game_pairs[k][2]} = p})

Floor(a, b) == a \div b

Ceil(a, b) == (a + b - 1) \div b

(* C3: fair distribution. For a league with at least 2 teams, game_pairs has
   exactly requiredTotal entries, every unordered pair of the league's teams
   occurs floor(requiredTotal/pairCount) or ceil(requiredTotal/pairCount) times in
   it, and at most extra = requiredTotal mod pairCount pairs occur more often
   than the floor. *)
C3_FairDistribution ==
    Generated =>
        LET P == UnorderedPairs(CurTeams)
            n == Cardinality(P)
        IN /\ Len(game_pairs) = CurRequired
           /\ \A k \in DOMAIN game_pairs : {game_pairs[k][1], game_pairs[k][2]} \in P
           /\ \A p \in P : Occurrences(p) \in {Floor(CurRequired, n), Ceil(CurRequired, n)}
           /\ Cardinality({p \in P : Occurrences(p) > Floor(CurRequired, n)}) <= CurRequired % n

(* a league whose pairs get one base game each and one pair an extra game *)
C3_Witness ==
    /\ Generated
    /\ Floor(CurRequired, Cardinality(UnorderedPairs(CurTeams))) >= 1
    /\ CurRequired % Cardinality(UnorderedPairs(CurTeams)) >= 1
    /\ Cardinality(UnorderedPairs(CurTeams)) > 1

RECURSIVE SortPairs(_)
(* the pairs of S in ascending order of (first, second) *)
SortPairs(S) ==
    IF S = {} THEN <<>>
    ELSE LET m == CHOOSE p \in S : \A q \in S : p[1] < q[1] \/ (p[1] = q[1] /\ p[2] <= q[2])
         IN <<m>> \o SortPairs(S \ {m})

(* base copies of each pair in order, then one more of each of the first extra *)
Emitted(pairs, required) ==
    LET n == Len(pairs)
        base == required \div n
    IN [k \in 1..required |->
           IF k <= base * n THEN pairs[((k - 1) \div base) + 1] ELSE pairs[k - base * n]]

Unordered(seq) == [k \in DOMAIN seq |-> {seq[k][1], seq[k][2]}]

(* the pairs of the initial-pass searches of the current league, in order *)
RECURSIVE InitialAttempts(_)
InitialAttempts(k) ==
    IF k > Len(attempts) THEN <<>>
    ELSE IF attempts[k].pass = "initial" /\ attempts[k].loop = li
        THEN <<attempts[k].pair>> \o InitialAttempts(k + 1)
    ELSE InitialAttempts(k + 1)

AttemptedInOrder ==
    LET done == InitialAttempts(1)
    IN /\ Len(done) <= Len(game_pairs)
       /\ done = SubSeq(game_pairs, 1, Len(done))
       /\ pc \in {"verify", "backfill"} => Len(done) = Len(game_pairs)

(* C4 as stated: whatever the order of the team rows, the attempted sequence is
   the unordered pairs sorted ascending by (first id, second id), each base
   times, then one more of each of the first extra pairs. *)
C4_SortedOrder ==
    Generated =>
        /\ Unordered(game_pairs)
             = Unordered(Emitted(SortPairs({p \in CurTeams \X CurTeams : p[1] < p[2]}),
                                 CurRequired))
        /\ AttemptedInOrder

(* C4: attempt order. The attempted sequence is the pairs (ids[i], ids[j]),
   i < j, of the league's team rows in ascending order of the row positions
   (i, j), each base times consecutively, then one more of each of the first
   extra pairs; it is the ascending (first id, second id) order when the rows
   are in ascending order of identifier. The initial pass attempts the
   instances exactly in this order. *)
C4_RowOrder ==
    Generated =>
        LET ids == TeamIds(league_df[li].leagueId)
            pos == SortPairs({p \in (1..Len(ids)) \X (1..Len(ids)) : p[1] < p[2]})
            rowPairs == [k \in DOMAIN pos |-> <<ids[pos[k][1]], ids[pos[k][2]]>>]
        IN /\ game_pairs = Emitted(rowPairs, CurRequired)
           /\ AttemptedInOrder
           /\ (\A i \in 1..(Len(ids) - 1) : ids[i] < ids[i + 1])
                 => game_pairs = Emitted(SortPairs({p \in CurTeams \X CurTeams : p[1] < p[2]}),
                                         CurRequired)

(* the initial pass of a league whose rows are not in ascending order of
   identifier is complete, with base and extra games *)
C4_Witness ==
    /\ pc = "verify"
    /\ Len(game_pairs) > 3
    /\ \E i \in 1..(Len(team_ids) - 1) : team_ids[i] > team_ids[i + 1]
    /\ CurRequired % Cardinality(UnorderedPairs(CurTeams)) >= 1
    /\ Floor(CurRequired, Cardinality(UnorderedPairs(CurTeams))) >= 1

(* the search of this step, if the step makes one *)
Searched == Len(attempts') = Len(attempts) + 1

LastAttempt == attempts'[Len(attempts')]

LastGame == all_scheduled_games'[Len(all_scheduled_games')]

HalfHourStarts == {HalfHour * h : h \in 0..(DefaultEnd \div HalfHour)}

(* the intersection of the windows the two teams have in their league on a day *)
DayWindow(t1, t2, d) ==
    LET w1 == Window(LeagueTeamRow(league_df[li].leagueId, t1), d, teamDayCols)
        w2 == Window(LeagueTeamRow(league_df[li].leagueId, t2), d, teamDayCols)
    IN <<Max(w1[1], w2[1]), Min(w1[2], w2[2])>>

(* s is a candidate start of the intersected window w *)
Candidate(w, s) == w[2] - w[1] >= GameLen /\ s \in HalfHourStarts /\ w[1] <= s /\ s + GameLen <= w[2]

(* before the step: both teams are free and some venue-field is open and free *)
Free(t1, t2, w, d, s) ==
    LET iv == Interval(s, s + GameLen, d, w) IN
    /\ ~Overlap(team_trees[t1], iv)
    /\ ~Overlap(team_trees[t2], iv)
    /\ \E v \in DOMAIN venue_df :
         /\ Window(venue_df[v], d, venueDayCols)[1] <= s
         /\ s + GameLen <= Window(venue_df[v], d, venueDayCols)[2]
         /\ ~Overlap(venue_trees[VenueKey(venue_df[v])], iv)

LexLess(a, b) ==
    \/ a[1] < b[1]
    \/ a[1] = b[1] /\ a[2] < b[2]
    \/ a[1] = b[1] /\ a[2] = b[2] /\ a[3] < b[3]

Horizon == league_df[li].seasonStart .. league_df[li].seasonEnd

(* some (week, day, start) of the horizon below the limit is feasible *)
FeasibleBelow(t1, t2, limit) ==
    \E d \in Days :
        LET win == DayWindow(t1, t2, d) IN
        \E s \in {x \in HalfHourStarts : Candidate(win, x)} :
            \E w \in Horizon : LexLess(<<w, d, s>>, limit) /\ Free(t1, t2, w, d, s)

EndOfHorizon == <<league_df[li].seasonEnd + 1, 0, 0>>

FirstFitStep ==
    Searched =>
        LET t1 == LastAttempt.pair[1]
            t2 == LastAttempt.pair[2]
        IN /\ LastAttempt.found =>
                /\ Len(all_scheduled_games') = Len(all_scheduled_games) + 1
                /\ ~FeasibleBelow(t1, t2, <<LastGame.week, LastGame.day, LastGame.start>>)
           /\ (~LastAttempt.found /\ LastAttempt.pass = "initial") =>
                /\ unscheduled_pairs' = Append(unscheduled_pairs, LastAttempt.pair)
                /\ ~FeasibleBelow(t1, t2, EndOfHorizon)
           /\ Len(unscheduled_pairs') > Len(unscheduled_pairs) =>
                (~LastAttempt.found /\ LastAttempt.pass = "initial")

(* C5: first-fit minimality. When a search commits a match at (week, day,
   start), no lexicographically smaller (week', day', start') of the league's
   horizon, start' a candidate start of the two teams' intersected window, was
   feasible in the state just before the commit (both teams free, some
   venue-field open and free); and an instance is marked Unscheduled only if no
   feasible (week, day, start, venue) exists in the whole horizon. *)
C5_FirstFit == [][FirstFitStep]_vars

(* a match was committed after the first week of its season, on the second
   venue row, and an instance of the same league was left unscheduled *)
C5_Witness ==
    /\ pc = "verify"
    /\ unscheduled_pairs # <<>>
    /\ \E i \in Games :
         /\ all_scheduled_games[i].loop = li
         /\ all_scheduled_games[i].week > league_df[li].seasonStart
    /\ \E i \in Games : all_scheduled_games[i].vrow > 1 /\ all_scheduled_games[i].start > 32

(* the row of a team of the match in the league whose loop committed it *)
RowOf(g, t) == LeagueTeamRow(league_df[g.loop].leagueId, t)

TeamWindow(g, t) == Window(RowOf(g, t), g.day, teamDayCols)

(* C6: team availability. Every committed match lies inside the intersection
   of its two teams' windows for its weekday, start >= max of the window starts
   and start + 2 <= min of the window ends, also for window bounds that are not
   multiples of half an hour; and no match is committed on a day where that
   intersection is shorter than 2 hours. *)
C6_TeamAvailability ==
    \A i \in Games :
        LET g == all_scheduled_games[i]
            lo == Max(TeamWindow(g, g.team1_id)[1], TeamWindow(g, g.team2_id)[1])
            hi == Min(TeamWindow(g, g.team1_id)[2], TeamWindow(g, g.team2_id)[2])
        IN /\ g.start >= lo
           /\ g.start + GameLen <= hi
           /\ hi - lo >= GameLen

VenueWindow(g) == Window(venue_df[g.vrow], g.day, venueDayCols)

(* C7: venue availability. Every committed match lies inside the window of its
   venue-field for its weekday, venue.start[day] <= start and start + 2 <=
   venue.end[day], the window being [0, 24) when the venue table has no fields
   for that day. *)
C7_VenueAvailability ==
    \A i \in Games :
        LET g == all_scheduled_games[i] IN
        /\ g.end = g.start + GameLen
        /\ VenueWindow(g)[1] <= g.start
        /\ g.start + GameLen <= VenueWindow(g)[2]
        /\ g.day \notin venueDayCols => VenueWindow(g) = <<0, 96>>

(* a match ends when its venue closes, and a later match of the run is played on
   a day for which the venue table has no fields *)
C7_Witness ==
    /\ \E i \in Games :
         /\ all_scheduled_games[i].day \in venueDayCols
         /\ all_scheduled_games[i].end = VenueWindow(all_scheduled_games[i])[2]
         /\ TeamWindow(all_scheduled_games[i], all_scheduled_games[i].team1_id)[2]
                > all_scheduled_games[i].end
    /\ \E i \in Games : all_scheduled_games[i].day \notin venueDayCols

LeagueNamed(name) == league_df[CHOOSE l \in DOMAIN league_df : league_df[l].leagueName = name]

(* C8: season bound. The week of every committed match, of the initial pass
   or of the backfill, lies within [seasonStart, seasonEnd] of the league
   recorded in the match's league field. *)
C8_SeasonBound ==
    \A i \in Games :
        LET g == all_scheduled_games[i] IN
        /\ LeagueNamed(g.league).seasonStart <= g.week
        /\ g.week <= LeagueNamed(g.league).seasonEnd

GamesOfTeam(t, name) ==
    {i \in Games : t \in Teams(all_scheduled_games[i]) /\ all_scheduled_games[i].league = name}

(* C9: per-team cap. At the end of the run no team appears, as team1 or team2,
   in more than numberOfGames committed matches of its league. *)
C9_PerTeamCap ==
    Done => \A r \in DOMAIN team_df : \A l \in DOMAIN league_df :
                league_df[l].leagueId = team_df[r].leagueId =>
                    Cardinality(GamesOfTeam(team_df[r].teamId, league_df[l].leagueName))
                        <= league_df[l].numberOfGames

(* the statement the run is at can be executed *)
CanStep ==
    \/ pc = "read"
    \/ pc = "league" /\ li >= 1
    \/ pc = "initial" /\ gi \in DOMAIN game_pairs
                      /\ \A k \in 1..2 : game_pairs[gi][k] \in DOMAIN team_trees
    \/ pc = "verify" /\ bi \in DOMAIN league_df
    \/ pc = "backfill" /\ ri \in DOMAIN retry
                       /\ \A k \in 1..2 : retry[ri][k] \in DOMAIN team_trees

(* C10: a scheduling deficit is never fatal. When the tables are read, the run
   goes on until the export and returns 0 with the committed matches exported,
   however many instances stay unscheduled; it returns 1, with nothing committed
   and nothing exported, only when reading the inputs fails. *)
C10_DeficitNotFatal ==
    /\ ret \in {-1, 0, 1}
    /\ pc # "done" => (ret = -1 /\ CanStep)
    /\ pc = "done" =>
         IF readable
            THEN /\ ret = 0
                 /\ Len(schedule_records) = Len(all_scheduled_games)
                 /\ \A i \in Games : schedule_records[i] = Record(all_scheduled_games[i])
            ELSE /\ ret = 1
                 /\ all_scheduled_games = <<>>
                 /\ schedule_records = <<>>
                 /\ attempts = <<>>

(* the run returned 0 although every instance searched stayed unscheduled *)
C10_Witness ==
    /\ pc = "done"
    /\ ret = 0
    /\ all_scheduled_games = <<>>
    /\ \E k \in DOMAIN attempts : attempts[k].pass = "backfill"

----------------------------------------------------------------------------
(* League skipping (lines 56-63 and 77-88) *)

(* the league loop skips the league of row l *)
Skipped(l) == seasonCol = "none" \/ Len(LeagueTeams(league_df[l].leagueId)) < 2

InitialOf(l) == {k \in DOMAIN attempts : attempts[k].pass = "initial" /\ attempts[k].loop = l}

(* C11: league skipping. A league with fewer than 2 teams, or of a table with
   no season column, has no committed match under its name, and no search or
   booking is made in its turn of the league loop; the other leagues are
   processed in input order, each with one initial attempt per instance. *)
C11_SkippedLeagueInert ==
    /\ \A l \in DOMAIN league_df :
         Skipped(l) =>
            /\ \A i \in Games : /\ all_scheduled_games[i].league # league_df[l].leagueName
                                /\ all_scheduled_games[i].loop # l
            /\ \A k \in DOMAIN attempts : attempts[k].loop # l
    /\ \A j, k \in DOMAIN attempts :
         (j < k /\ attempts[j].pass = "initial" /\ attempts[k].pass = "initial")
            => attempts[j].loop <= attempts[k].loop
    /\ Done => \A l \in DOMAIN league_df :
                  ~Skipped(l) => Cardinality(InitialOf(l)) = RequiredTotal(league_df[l])

(* the same statement on inputs whose team identifiers are all different *)
C11_Unique == UniqueTeamIds => C11_SkippedLeagueInert

----------------------------------------------------------------------------
(* Scenario A (src/test.py) *)

(* the tables are exactly those of src/test.py *)
TestCaseInput ==
    /\ teamDayCols = FirstDayOnly
    /\ venueDayCols = FirstDayOnly
    /\ team_df = TeamTable(2, Ascending(2), [i \in 1..2 |-> 1], TestTeams(2), FirstDayOnly)
    /\ venue_df = VenueTable(1, <<1>>, <<TestVenue>>, FirstDayOnly)
    /\ league_df = LeagueTable(1, <<<<1, 2>>>>, <<2>>)

(* two matches on week 1, day 1, from 9:00 to 11:00 and from 11:00 to 13:00 *)
TestCaseResult ==
    /\ Len(all_scheduled_games) = 2
    /\ \A i \in 1..2 : /\ all_scheduled_games[i].week = 1
                       /\ all_scheduled_games[i].day = 1
                       /\ Teams(all_scheduled_games[i]) = {1, 2}
    /\ all_scheduled_games[1].start = 36 /\ all_scheduled_games[1].end = 44
    /\ all_scheduled_games[2].start = 44 /\ all_scheduled_games[2].end = 52

(* the team row the search of match g read for team t *)
SearchRow(g, t) == IF g.pass = "initial" THEN RowOf(g, t) ELSE AnyTeamRow(t)

PairWindow(g) ==
    LET w1 == Window(SearchRow(g, g.team1_id), g.day, teamDayCols)
        w2 == Window(SearchRow(g, g.team2_id), g.day, teamDayCols)
    IN <<Max(w1[1], w2[1]), Min(w1[2], w2[2])>>

(* the matches of g's pair committed before match j on g's day *)
EarlierOfPair(j, g) ==
    {i \in 1..(j - 1) : /\ Teams(all_scheduled_games[i]) = Teams(g)
                        /\ SameDay(all_scheduled_games[i], g)}

Clear(s, b) == ~(s < b.end /\ b.start < s + GameLen)

(* when match j was searched, a game from s on g's day met no match of either
   team and some venue-field was open for it and had no match *)
FreeBefore(j, g, s) ==
    /\ \A i \in 1..(j - 1) :
         LET b == all_scheduled_games[i] IN
         (SameDay(b, g) /\ SharesTeam(b, g)) => Clear(s, b)
    /\ \E v \in DOMAIN venue_df :
         /\ Window(venue_df[v], g.day, venueDayCols)[1] <= s
         /\ s + GameLen <= Window(venue_df[v], g.day, venueDayCols)[2]
         /\ \A i \in 1..(j - 1) :
              LET b == all_scheduled_games[i] IN
              (SameDay(b, g) /\ b.vkey = VenueKey(venue_df[v])) => Clear(s, b)

(* C13 as stated: Scenario A ends with the two matches 9:00-11:00 and
   11:00-13:00 of week 1, day 1; and a match committed on a day where its pair
   already has a match starts at the earliest candidate start of the day that
   does not overlap the pair's earlier matches. *)
C13_EarliestAfterOwnMatches ==
    /\ (Done /\ TestCaseInput) => TestCaseResult
    /\ \A j \in Games :
         LET g == all_scheduled_games[j] IN
         EarlierOfPair(j, g) # {} =>
            ~\E s \in HalfHourStarts :
                /\ s < g.start
                /\ Candidate(PairWindow(g), s)
                /\ \A i \in EarlierOfPair(j, g) : Clear(s, all_scheduled_games[i])

(* C13, amended: Scenario A ends with the two matches 9:00-11:00 and
   11:00-13:00 of week 1, day 1; and a match committed on a day where its pair
   already has a match starts at the earliest candidate start of the day at
   which neither team has a match and some venue-field is open and has none. *)
C13_ScenarioA ==
    /\ (Done /\ TestCaseInput) => TestCaseResult
    /\ \A j \in Games :
         LET g == all_scheduled_games[j] IN
         EarlierOfPair(j, g) # {} =>
            ~\E s \in HalfHourStarts :
                /\ s < g.start
                /\ Candidate(PairWindow(g), s)
                /\ FreeBefore(j, g, s)

(* the run on the tables of src/test.py is over, with its second match placed
   right after the first one of the same day *)
C13_Witness ==
    /\ Done
    /\ TestCaseInput
    /\ Len(all_scheduled_games) = 2
    /\ EarlierOfPair(2, all_scheduled_games[2]) = {1}
    /\ all_scheduled_games[2].start = all_scheduled_games[1].end

----------------------------------------------------------------------------
(* Scenario B (src/core/test/test_case9.py) *)

Case9Input == Len(team_df) = Case9Teams /\ league_df[1].seasonEnd = Case9Weeks

(* every instance of league l was committed by its initial pass *)
AllScheduled(l) ==
    /\ Cardinality(InitialOf(l)) = RequiredTotal(league_df[l])
    /\ \A k \in InitialOf(l) : attempts[k].found

PairCount(l) ==
    LET n == Len(LeagueTeams(league_df[l].leagueId)) IN (n * (n - 1)) \div 2

(* C14: Scenario B. The league of 6 teams with a 5-week season and 10 games
   per team ends with exactly 30 committed matches and every team in exactly 10
   of them; and for every league whose requiredTotal is a multiple of its number
   of pairs and whose instances were all scheduled, each team of the league
   appears in exactly numberOfGames committed matches of the league. *)
C14_ScenarioB ==
    Done =>
        /\ Case9Input =>
              /\ Len(all_scheduled_games) = 30
              /\ \A t \in 1..Case9Teams :
                    Cardinality({i \in Games : t \in Teams(all_scheduled_games[i])}) = 10
        /\ \A l \in DOMAIN league_df :
              (~Skipped(l) /\ RequiredTotal(league_df[l]) % PairCount(l) = 0 /\ AllScheduled(l)) =>
                 \A t \in Range(TeamIds(league_df[l].leagueId)) :
                    Cardinality(GamesOfTeam(t, league_df[l].leagueName))
                        = league_df[l].numberOfGames

(* the run of Scenario B is over with all of its 30 instances committed *)
C14_Witness ==
    /\ Done
    /\ Case9Input
    /\ AllScheduled(1)
    /\ Len(all_scheduled_games) = Case9Teams * Case9Weeks

----------------------------------------------------------------------------
(* Termination *)

(* C15: termination. Every run reaches the end of Scheduler.run (the export
   step done, or the return after a failed read), whatever the finite tables,
   also when backfill attempts are made. *)
C15_Termination == <>(pc = "done")

(* the run is over after backfill attempts, one of which committed a match *)
C15_Witness ==
    /\ pc = "done"
    /\ ret = 0
    /\ \E k \in DOMAIN attempts : attempts[k].pass = "backfill" /\ attempts[k].found
    /\ \E k \in DOMAIN attempts : attempts[k].pass = "backfill" /\ ~attempts[k].found

----------------------------------------------------------------------------
(* Venue order (lines 162-177 and 286-301) *)

(* before the step: the venue row v is open for a game from s on (w, d), and
   its venue-field has no overlapping booking *)
VenueFits(v, w, d, s) ==
    /\ Window(venue_df[v], d, venueDayCols)[1] <= s
    /\ s + GameLen <= Window(venue_df[v], d, venueDayCols)[2]
    /\ ~Overlap(venue_trees[VenueKey(venue_df[v])], Interval(s, s + GameLen, d, w))

KeyLess(a, b) == a[1] < b[1] \/ (a[1] = b[1] /\ a[2] < b[2])

(* the venue rows that fit the interval of the match committed by this step *)
FittingRows ==
    {v \in DOMAIN venue_df : VenueFits(v, LastGame.week, LastGame.day, LastGame.start)}

Committed == Searched /\ LastAttempt.found

(* C16 as stated: the venue-field of a committed match is the smallest by
   (venue identifier, field number) among the venue-fields that were open for
   its interval and had no overlapping booking, whatever the order of the
   venue rows. *)
C16_SmallestKey ==
    [][Committed =>
          /\ LastGame.vrow \in FittingRows
          /\ \A v \in FittingRows :
                ~KeyLess(VenueKey(venue_df[v]), LastGame.vkey)]_vars

(* C16, amended: the venue-field of a committed match is the first one, in
   the order of the rows of the venue table, among the venue-fields that were
   open for its interval and had no overlapping booking; it is the smallest by
   (venue identifier, field number) when the rows are in that order. *)
C16_RowOrder ==
    [][Committed =>
          /\ LastGame.vrow \in FittingRows
          /\ LastGame.vkey = VenueKey(venue_df[LastGame.vrow])
          /\ \A v \in FittingRows : LastGame.vrow <= v
          /\ (\A a, b \in DOMAIN venue_df :
                 a < b => KeyLess(VenueKey(venue_df[a]), VenueKey(venue_df[b])))
               => \A v \in FittingRows :
                     ~KeyLess(VenueKey(venue_df[v]), LastGame.vkey)]_vars

(* a match was committed on the second venue row, whose identifier is the
   smaller one, because the first row was booked *)
C16_Witness ==
    \E i \in Games :
        LET g == all_scheduled_games[i] IN
        /\ g.vrow = 2
        /\ KeyLess(g.vkey, VenueKey(venue_df[1]))
        /\ \E j \in 1..(i - 1) : all_scheduled_games[j].vrow = 1

----------------------------------------------------------------------------
(* Booking consistency (lines 194-201 and 318-325) *)

IntervalOf(g) == Interval(g.start, g.end, g.day, g.week)

GamesOn(t) == {i \in Games : t \in Teams(all_scheduled_games[i])}

GamesAt(k) == {i \in Games : all_scheduled_games[i].vkey = k}

(* the number of intervals stored in the conflict indices of trees *)
Bookings(trees) ==
    Cardinality({p \in (DOMAIN trees) \X (UNION {trees[k] : k \in DOMAIN trees}) :
                     p[2] \in trees[p[1]]})

(* C17: booking consistency. In every state, the intervals stored in a team's
   conflict index are exactly the (week, day, start, end) of the committed
   matches of that team, and those of a venue-field's index exactly those of
   the committed matches played on it; the indices hold three intervals per
   committed match (two team indices, one venue-field index) and nothing
   else, so a commit adds exactly three and a failed search none. *)
C17_BookingConsistency ==
    /\ \A i \in Games : /\ Teams(all_scheduled_games[i]) \subseteq DOMAIN team_trees
                        /\ all_scheduled_games[i].vkey \in DOMAIN venue_trees
                        /\ all_scheduled_games[i].team1_id # all_scheduled_games[i].team2_id
    /\ \A t \in DOMAIN team_trees :
          team_trees[t] = {IntervalOf(all_scheduled_games[i]) : i \in GamesOn(t)}
    /\ \A k \in DOMAIN venue_trees :
          venue_trees[k] = {IntervalOf(all_scheduled_games[i]) : i \in GamesAt(k)}
    /\ Bookings(team_trees) = 2 * Len(all_scheduled_games)
    /\ Bookings(venue_trees) = Len(all_scheduled_games)

(* two matches are committed, one of them by the backfill, and the last search
   of the run failed *)
C17_Witness ==
    /\ Len(all_scheduled_games) >= 2
    /\ \E i \in Games : all_scheduled_games[i].pass = "backfill"
    /\ Len(attempts) > 0
    /\ ~attempts[Len(attempts)].found
    /\ \E t \in DOMAIN team_trees : Cardinality(team_trees[t]) >= 2

----------------------------------------------------------------------------
(* Backfill pass (lines 216-348) *)

Backfills == {k \in DOMAIN attempts : attempts[k].pass = "backfill"}

Initials == {k \in DOMAIN attempts : attempts[k].pass = "initial"}

(* C18: pass ordering. Every search attempt of the initial pass, of whatever
   league, precedes every search attempt of the backfill. *)
C18_PassOrdering == \A j \in Backfills : \A k \in Initials : k < j

(* C19: single retry. An instance left unscheduled by the initial pass of a
   league is searched again at most once in the whole run: no two backfill
   attempts are made for the same position of the same league's list of
   unscheduled instances. *)
C19_SingleRetry ==
    \A j, k \in Backfills :
        (attempts[j].loop = attempts[k].loop /\ attempts[j].pos = attempts[k].pos) => j = k

(* the pairs league l's initial pass left unscheduled, in their order *)
LeftUnscheduled(l) ==
    LET failed == SelectIdx(attempts, {a \in Range(attempts) :
                                a.pass = "initial" /\ a.loop = l /\ ~a.found}, 1)
    IN [i \in 1..Len(failed) |-> attempts[failed[i]].pair]

(* C20: backfill scope. While the backfill triggered by the shortfall of the
   league of row bi runs, the instances searched again are those left
   unscheduled by that league's own initial pass, in their order, their teams
   belong to that league, and the weeks searched are that league's season;
   every backfill attempt is made for the league whose shortfall triggered it. *)
C20_BackfillScope ==
    /\ pc = "backfill" =>
          /\ retry = LeftUnscheduled(bi)
          /\ \A q \in DOMAIN retry :
                {retry[q][1], retry[q][2]} \subseteq Range(TeamIds(league_df[bi].leagueId))
          /\ season_start = league_df[bi].seasonStart
          /\ season_end = league_df[bi].seasonEnd
    /\ \A k \in Backfills : attempts[k].inner = attempts[k].loop

SingleLeague == Len(league_df) <= 1

(* the three statements on the inputs of one league *)
C18_OneLeague == SingleLeague => C18_PassOrdering

C19_OneLeague == SingleLeague => C19_SingleRetry

C20_OneLeague == SingleLeague => C20_BackfillScope

----------------------------------------------------------------------------
(* Instance state machine (lines 107-118 and 211-242) *)

(* the attempts by which league l's initial pass left an instance unscheduled *)
FailedInitial(l) ==
    SelectIdx(attempts, {a \in Range(attempts) :
                            a.pass = "initial" /\ a.loop = l /\ ~a.found}, 1)

(* the position in its league's game_pairs of the instance attempt k is for *)
InstanceOf(k) ==
    IF attempts[k].pass = "initial" THEN attempts[k].pos
    ELSE attempts[FailedInitial(attempts[k].loop)[attempts[k].pos]].pos

Generated_for(p) == Cardinality({k \in DOMAIN game_pairs : game_pairs[k] = p})

(* C21: instance state machine. Scheduled is terminal: once a search of an
   instance has committed a match, the instance is never searched again, so
   each instance yields at most one committed match; and for every pair of
   the league being processed, pair_game_count never exceeds the number of
   instances generated for the pair. *)
C21_InstanceStates ==
    /\ \A j, k \in DOMAIN attempts :
          (j < k /\ attempts[j].loop = attempts[k].loop /\ attempts[j].found)
             => InstanceOf(j) # InstanceOf(k)
    /\ Generated =>
          \A p \in DOMAIN pair_game_count : pair_game_count[p] <= Generated_for(p)

(* the same statement on inputs whose team identifiers are all different *)
C21_Unique == UniqueTeamIds => C21_InstanceStates

----------------------------------------------------------------------------
(* Commit order and monotonic growth (lines 194-202 and 350-370) *)

(* every conflict index of trees is kept, with all of its intervals *)
Grows(trees, after) ==
    \A k \in DOMAIN trees : k \in DOMAIN after /\ trees[k] \subseteq after[k]

(* C22: commit order and monotonic growth. Every step leaves the sequence of
   committed matches unchanged or appends exactly one match at its end, and
   removes no interval from any conflict index; the records handed to the
   exporter are the committed matches in the order of their commits. *)
C22_MonotonicGrowth ==
    [][/\ \/ all_scheduled_games' = all_scheduled_games
          \/ /\ Len(all_scheduled_games') = Len(all_scheduled_games) + 1
             /\ SubSeq(all_scheduled_games', 1, Len(all_scheduled_games)) = all_scheduled_games
       /\ Grows(team_trees, team_trees')
       /\ Grows(venue_trees, venue_trees')
       /\ pc' = "done" =>
             /\ Len(schedule_records') = Len(all_scheduled_games)
             /\ \A i \in Games : schedule_records'[i] = Record(all_scheduled_games[i])
       /\ pc' # "done" => schedule_records' = <<>>]_vars

(* three matches of two leagues and of both passes were exported *)
C22_Witness ==
    /\ pc = "done"
    /\ Len(schedule_records) >= 3
    /\ \E i, j \in Games : all_scheduled_games[i].loop # all_scheduled_games[j].loop
    /\ \E i, j \in Games : i < j /\ all_scheduled_games[i].pass = "initial"
                                 /\ all_scheduled_games[j].pass = "backfill"

----------------------------------------------------------------------------
(* Backfill under unique team identifiers (lines 211-214 and 230-337) *)

(* C23: the backfill never commits. When the team identifiers of the input
   are all different, no backfill attempt finds a slot: every committed match
   was committed by the initial pass of the league whose name it carries, and
   a backfill step leaves the committed matches and the conflict indices
   unchanged. *)
C23_BackfillNeverCommits ==
    UniqueTeamIds =>
        /\ \A k \in Backfills : ~attempts[k].found
        /\ \A i \in Games : /\ all_scheduled_games[i].pass = "initial"
                            /\ all_scheduled_games[i].league
                                  = league_df[all_scheduled_games[i].loop].leagueName
        /\ Len(all_scheduled_games) = Cardinality({k \in Initials : attempts[k].found})
        /\ Bookings(team_trees) = 2 * Cardinality({k \in Initials : attempts[k].found})

(* with unique identifiers, an instance failed in the initial pass after a
   commit, was searched again for two short leagues, and the run is over *)
C23_Witness ==
    /\ UniqueTeamIds
    /\ Done
    /\ Len(all_scheduled_games) >= 1
    /\ \E j, k \in Backfills : attempts[j].inner # attempts[k].inner
    /\ \E l \in DOMAIN league_df : league_df[l].seasonEnd > league_df[1].seasonEnd

----------------------------------------------------------------------------
(* League label (lines 179-192, 216-224 and 303-316) *)

(* C24: league label. The league and the season recorded in every committed
   match, of the initial pass or of the backfill, are those of one league of
   the input to which both of its teams belong. *)
C24_LeagueLabel ==
    \A i \in Games :
        LET g == all_scheduled_games[i] IN
        \E l \in DOMAIN league_df :
            /\ g.league = league_df[l].leagueName
            /\ g.season = league_df[l].label
            /\ Teams(g) \subseteq Range(TeamIds(league_df[l].leagueId))

(* the same statement on inputs whose team identifiers are all different *)
C24_Unique == UniqueTeamIds => C24_LeagueLabel

====
